---- MODULE Spec2Model ----
(***************************************************************************)
(* AI Paragraph Titler API (src/ai_paragraph_titler_project/main.py).      *)
(*                                                                         *)
(* Specifications over one set of variables:                               *)
(*   SpecClassify  the pure function evaluate_title_status applied to      *)
(*                 bounded titles and paragraphs;                          *)
(*   Spec          all protected routes acting on saved_results;           *)
(*   SpecStore     Spec restricted to the routes that save, list, delete;  *)
(*   SpecGenerate  Spec restricted to the two generating routes;           *)
(*   SpecRegister  POST /register acting on the users table;               *)
(*   SpecPool      POST /register and POST /login drawing connections from *)
(*                 the db_pool of the worker process that serves them.     *)
(* Strings are sequences of one-character strings, so that split(),        *)
(* strip() and endswith() are computed and not assumed.                    *)
(***************************************************************************)
EXTENDS Integers, Sequences, FiniteSets, TLC

\* ------------------------------------------------------------------ bounds
MaxTitleWords == 10
MaxParaWords == 51
MaxSuffixLen == 3

\* ------------------------------------------------------- string primitives
None == "None"

\* str.split() with no argument splits on runs of whitespace
IsSpace(c) == c \in {" ", "\t", "\n"}

\* len(s.split()): the number of maximal runs of non-whitespace characters
SplitLen(s) ==
    Cardinality({i \in 1..Len(s) : ~IsSpace(s[i]) /\ (i = 1 \/ IsSpace(s[i - 1]))})

\* s.endswith(suf) for one suffix
EndsWith(s, suf) ==
    /\ Len(s) >= Len(suf)
    /\ SubSeq(s, Len(s) - Len(suf) + 1, Len(s)) = suf

\* s.endswith(tuple): true when any suffix of the tuple matches
EndsWithAny(s, sufs) == \E k \in 1..Len(sufs) : EndsWith(s, sufs[k])

\* the tuple of truncation markers of line 261: ('...', '..', '..')
TruncationMarkers == << <<".", ".", ".">>, <<".", ".">>, <<".", ".">> >>

\* ------------------------------------------------- evaluate_title_status
\* mutant: the paragraph-length rule is applied to short titles too
evaluate_title_status_NoShortCircuit(title, paragraph) ==
    LET title_words == SplitLen(title)
        paragraph_words == SplitLen(paragraph)
        status == IF title_words < 3 THEN "short"
                  ELSE IF title_words <= 8 THEN "optimal" ELSE "verbose"
        confidence == IF paragraph_words < 10 THEN "low"
                      ELSE IF paragraph_words < 50 THEN "medium" ELSE "high"
    IN  IF title_words >= 3 /\ EndsWithAny(title, TruncationMarkers)
        THEN <<"truncated", "medium">>
        ELSE <<status, confidence>>

\* mutant: off-by-one boundaries (<= 3, < 8, <= 10, <= 50)
evaluate_title_status_OffByOne(title, paragraph) ==
    LET title_words == SplitLen(title)
        paragraph_words == SplitLen(paragraph)
        status == IF title_words < 8 THEN "optimal" ELSE "verbose"
        confidence == IF paragraph_words <= 10 THEN "low"
                      ELSE IF paragraph_words <= 50 THEN "medium" ELSE "high"
    IN  IF title_words <= 3
        THEN <<"short", "medium">>
        ELSE IF EndsWithAny(title, TruncationMarkers)
             THEN <<"truncated", "medium">>
             ELSE <<status, confidence>>

evaluate_title_status(title, paragraph) ==
    LET title_words == SplitLen(title)
        paragraph_words == SplitLen(paragraph)
        status == IF title_words >= 3 /\ title_words <= 8 THEN "optimal" ELSE "verbose"
        confidence == IF paragraph_words < 10 THEN "low"
                      ELSE IF paragraph_words < 50 THEN "medium" ELSE "high"
    IN  IF title_words < 3
        THEN <<"short", "medium">>          \* early return, line 248
        ELSE IF EndsWithAny(title, TruncationMarkers)
             THEN <<"truncated", "medium">>
             ELSE <<status, confidence>>

\* ---------------------------------------------------------- input domains
RECURSIVE JoinWords(_)
\* n one-letter words joined by single spaces
JoinWords(n) ==
    IF n = 0 THEN <<>>
    ELSE IF n = 1 THEN <<"a">>
    ELSE JoinWords(n - 1) \o <<" ", "a">>

Alphabet == {"a", " ", "."}

RECURSIVE SeqsUpTo(_, _)
\* all sequences over S of length at most n
SeqsUpTo(S, n) ==
    IF n = 0 THEN {<<>>}
    ELSE LET shorter == SeqsUpTo(S, n - 1)
         IN  shorter \cup {Append(s, c) : s \in shorter, c \in S}

\* titles: up to MaxTitleWords words followed by any tail of letters, spaces
\* and dots (a tail may extend the last word, add a word, or add an ellipsis)
Titles == {JoinWords(n) \o tail : n \in 0..MaxTitleWords,
                                  tail \in SeqsUpTo(Alphabet, MaxSuffixLen)}

\* paragraphs: 0..MaxParaWords words, with or without leading whitespace
ClassifyParagraphs == {lead \o JoinWords(n) : n \in 0..MaxParaWords,
                                              lead \in {<<>>, <<"\n", " ">>}}


\* ======================================================================
\*                              HTTP API
\* ======================================================================
\* ------------------------------------------------------------------ bounds
MaxTime == 1        \* clock values 0..MaxTime
MaxResults == 3     \* saved_results AUTO_INCREMENT ids 1..MaxResults
MaxBatch == 2       \* length of the paragraphs list of /generate-titles
MaxLimit == 1       \* limit and offset of /saved-results range over 0..MaxLimit
MaxUsers == 3       \* users AUTO_INCREMENT ids 1..MaxUsers

ACCESS_TOKEN_EXPIRE_MINUTES == 60 * 24

\* ------------------------------------------------------------ strip()
RECURSIVE LStrip(_)
LStrip(s) == IF s # <<>> /\ IsSpace(Head(s)) THEN LStrip(Tail(s)) ELSE s

RECURSIVE RStrip(_)
RStrip(s) ==
    IF s # <<>> /\ IsSpace(s[Len(s)]) THEN RStrip(SubSeq(s, 1, Len(s) - 1)) ELSE s

Strip(s) == RStrip(LStrip(s))

\* --------------------------------------------------------------- tokens
\* A bearer token as jwt.decode sees it: sig_ok tells whether signature and
\* structure verify; payload is the claims dict.
Token(sig_ok, payload) == [sig_ok |-> sig_ok, payload |-> payload]

\* payload.get(key) is None: the claim is missing
IsNone(payload, key) == key \notin DOMAIN payload

\* create_access_token: the data plus exp = utcnow() + ACCESS_TOKEN_EXPIRE_MINUTES,
\* signed with SECRET_KEY
create_access_token(data, now) ==
    Token(TRUE, [k \in DOMAIN data \cup {"exp"} |->
                    IF k = "exp" THEN now + ACCESS_TOKEN_EXPIRE_MINUTES ELSE data[k]])

\* A raised HTTPException, and a normal return, of a helper
HTTPException(status_code, detail) ==
    [ok |-> FALSE, status |-> status_code, detail |-> detail]

Return(value) == [ok |-> TRUE, value |-> value]

\* What "except jwt.JWTError" (line 129) does when jwt.decode raises an
\* error other than ExpiredSignatureError.  The module imported at line 13
\* is PyJWT (jwt.encode / jwt.decode / jwt.ExpiredSignatureError); PyJWT
\* defines PyJWTError and InvalidTokenError but no attribute JWTError, so
\* evaluating the except clause raises AttributeError, which no handler
\* catches: the framework answers 500.  A build whose jwt module does
\* define JWTError answers the 401 of line 130.  Both outcomes are kept.
JWTErrorOutcomes ==
    { HTTPException(401, <<"Invalid token">>),
      HTTPException(500, <<"Internal Server Error">>) }

\* decode_token: the set of outcomes for a token at time now.  jwt.decode
\* verifies the signature first and the exp claim second (exp <= now is
\* expired).
decode_token(token, now) ==
    IF ~token.sig_ok THEN JWTErrorOutcomes
    ELSE IF "exp" \in DOMAIN token.payload /\ token.payload["exp"] <= now
         THEN { HTTPException(401, <<"Token has expired">>) }
         ELSE { Return(token.payload) }

\* the users rows with this id ("SELECT ... FROM users WHERE user_id = %s")
UsersById(users, user_id) ==
    IF user_id \in Int THEN {u \in users : u.user_id = user_id} ELSE {}

\* get_current_user: decode, require the user_id claim, fetch the user by id
\* and require is_active.  The set of outcomes: a raised HTTPException or
\* the returned user row.
get_current_user(token, now, users) ==
    UNION { IF ~d.ok THEN {d}
            ELSE IF IsNone(d.value, "user_id")
                 THEN { HTTPException(401, <<"Invalid authentication">>) }
                 ELSE LET found == UsersById(users, d.value["user_id"])
                      IN  IF found = {} \/ \E u \in found : ~u.is_active
                          THEN { HTTPException(401, <<"User not found or inactive">>) }
                          ELSE { Return(u) : u \in found }
          : d \in decode_token(token, now) }

\* ------------------------------------------------------- generate_title
\* The summarizer is opaque: a call either returns a summary text or raises
\* an exception carrying a message.
SummaryTexts == { <<"a", " ", "a", " ", "a">> }
ErrorTexts == { "CUDA out of memory" }
SummarizerOutcomes ==
    { [ok |-> TRUE, text |-> t] : t \in SummaryTexts } \cup
    { [ok |-> FALSE, text |-> e] : e \in ErrorTexts }

\* generate_title's outcome: a raised ValueError with its message (a
\* sequence of parts, so that an embedded str(e) stays visible) or the
\* returned dict (processing_time_ms, a wall-clock measurement, is left
\* out); calls is the sequence of arguments the summarizer was invoked with.
ValueError(message, calls) == [ok |-> FALSE, message |-> message, calls |-> calls]

ResultData(title, paragraph, calls) ==
    LET sc == evaluate_title_status(title, paragraph)
    IN  [ok |-> TRUE, calls |-> calls,
         data |-> [title |-> title, paragraph |-> paragraph,
                   status |-> sc[1], confidence |-> sc[2],
                   character_count |-> Len(paragraph),
                   word_count |-> SplitLen(paragraph)]]

\* the summarizer call of lines 276-281
SummarizerCall(paragraph, max_length, min_length) ==
    [paragraph |-> paragraph, max_length |-> max_length, min_length |-> min_length]

\* mutant: the blank check of line 272 is missing
generate_title_NoBlankCheck(paragraph, max_length, min_length, outcome) ==
    LET calls == << SummarizerCall(paragraph, max_length, min_length) >>
    IN  IF ~outcome.ok
        THEN ValueError(<<"Failed to generate title: ", outcome.text>>, calls)
        ELSE ResultData(outcome.text, paragraph, calls)

\* outcome is what the summarizer does if it is called
generate_title(paragraph, max_length, min_length, outcome) ==
    LET calls == << SummarizerCall(paragraph, max_length, min_length) >>
    IN  IF paragraph = <<>> \/ Len(Strip(paragraph)) = 0
        THEN ValueError(<<"Paragraph cannot be empty">>, <<>>)
        ELSE IF ~outcome.ok
             THEN ValueError(<<"Failed to generate title: ", outcome.text>>, calls)
             ELSE ResultData(outcome.text, paragraph, calls)

\* ---------------------------------------------------- saved_results table
\* The row INSERTed by save_result_to_db; result_id is the AUTO_INCREMENT
\* value (cursor.lastrowid) and created_at the time of the insert.
save_result_to_db(result_id, user_id, now, result_data) ==
    [result_id |-> result_id, user_id |-> user_id, created_at |-> now,
     paragraph |-> result_data.paragraph, title |-> result_data.title,
     status |-> result_data.status, confidence |-> result_data.confidence,
     character_count |-> result_data.character_count,
     word_count |-> result_data.word_count]

\* TitleResult(**result_data, result_id=..., created_at=utcnow())
TitleResult(result_data, result_id, now) ==
    [result_id |-> result_id, created_at |-> now,
     paragraph |-> result_data.paragraph, title |-> result_data.title,
     status |-> result_data.status, confidence |-> result_data.confidence,
     character_count |-> result_data.character_count,
     word_count |-> result_data.word_count]

\* TitleResult(**r) of a fetched row
RowResult(r) ==
    [result_id |-> r.result_id, created_at |-> r.created_at,
     paragraph |-> r.paragraph, title |-> r.title,
     status |-> r.status, confidence |-> r.confidence,
     character_count |-> r.character_count, word_count |-> r.word_count]

\* What a handler hands back: the response (status, detail, the sequence of
\* records of its data, total_results), its summarizer calls and the rows it
\* INSERTed and committed.
Outcome(status, detail, data, calls, inserted) ==
    [status |-> status, detail |-> detail, data |-> data, total |-> 0,
     calls |-> calls, inserted |-> inserted]

\* ------------------------------------------------ generate_single_title
generate_single_title(request, current_user, now, next_result_id, outcome) ==
    LET g == generate_title(request.paragraph, request.max_length,
                            request.min_length, outcome)
    IN  IF ~g.ok
        THEN Outcome(400, g.message, <<>>, g.calls, {})    \* except ValueError
        ELSE LET result_id == IF request.save_result THEN next_result_id ELSE None
                 rows == IF request.save_result
                         THEN {save_result_to_db(next_result_id, current_user.user_id,
                                                 now, g.data)}
                         ELSE {}
             IN  Outcome(200, <<"Title generated successfully">>,
                         << TitleResult(g.data, result_id, now) >>, g.calls, rows)

\* ---------------------------------------------- generate_multiple_titles
\* The for loop of lines 507-517 from item i on: results, the rows saved so
\* far and the summarizer calls so far are carried along; outcomes[i] is
\* what the summarizer does if it is called for item i.
RECURSIVE BatchLoopSkipFailed(_, _, _, _, _, _, _, _)
\* mutant: a failing item is skipped and the loop goes on
BatchLoopSkipFailed(request, current_user, now, next_result_id, outcomes, i, results, acc) ==
    IF i > Len(request.paragraphs)
    THEN Outcome(200, <<"Successfully generated titles">>, results, acc.calls, acc.inserted)
    ELSE LET paragraph == request.paragraphs[i]
         IN  IF Len(Strip(paragraph)) = 0
             THEN BatchLoopSkipFailed(request, current_user, now, next_result_id,
                                      outcomes, i + 1, results, acc)
             ELSE LET g == generate_title(paragraph, request.max_length,
                                          request.min_length, outcomes[i])
                      calls == acc.calls \o g.calls
                  IN  IF ~g.ok
                      THEN BatchLoopSkipFailed(request, current_user, now, next_result_id,
                               outcomes, i + 1, results,
                               [calls |-> calls, inserted |-> acc.inserted])
                      ELSE LET id == next_result_id + Cardinality(acc.inserted)
                               result_id == IF request.save_results THEN id ELSE None
                               rows == IF request.save_results
                                       THEN acc.inserted \cup
                                            {save_result_to_db(id, current_user.user_id,
                                                               now, g.data)}
                                       ELSE acc.inserted
                           IN  BatchLoopSkipFailed(request, current_user, now,
                                   next_result_id, outcomes, i + 1,
                                   Append(results, TitleResult(g.data, result_id, now)),
                                   [calls |-> calls, inserted |-> rows])

RECURSIVE BatchLoop(_, _, _, _, _, _, _, _)
BatchLoop(request, current_user, now, next_result_id, outcomes, i, results, acc) ==
    IF i > Len(request.paragraphs)
    THEN Outcome(200, <<"Successfully generated titles">>, results, acc.calls, acc.inserted)
    ELSE LET paragraph == request.paragraphs[i]
         IN  IF Len(Strip(paragraph)) = 0          \* if paragraph.strip(): skipped
             THEN BatchLoop(request, current_user, now, next_result_id,
                            outcomes, i + 1, results, acc)
             ELSE LET g == generate_title(paragraph, request.max_length,
                                          request.min_length, outcomes[i])
                      calls == acc.calls \o g.calls
                  IN  IF ~g.ok
                      THEN \* except ValueError: the results list is dropped,
                           \* the rows committed so far stay
                           Outcome(400, g.message, <<>>, calls, acc.inserted)
                      ELSE LET id == next_result_id + Cardinality(acc.inserted)
                               result_id == IF request.save_results THEN id ELSE None
                               rows == IF request.save_results
                                       THEN acc.inserted \cup
                                            {save_result_to_db(id, current_user.user_id,
                                                               now, g.data)}
                                       ELSE acc.inserted
                           IN  BatchLoop(request, current_user, now, next_result_id,
                                   outcomes, i + 1,
                                   Append(results, TitleResult(g.data, result_id, now)),
                                   [calls |-> calls, inserted |-> rows])

generate_multiple_titles(request, current_user, now, next_result_id, outcomes) ==
    BatchLoop(request, current_user, now, next_result_id, outcomes, 1, <<>>,
              [calls |-> <<>>, inserted |-> {}])

\* ------------------------------------------------------ get_saved_results
Min(a, b) == IF a < b THEN a ELSE b

\* the orders "ORDER BY created_at DESC" can give to a set of rows (rows of
\* equal created_at come in any order)
OrderedByCreatedDesc(rows) ==
    LET n == Cardinality(rows)
    IN  { s \in [1..n -> rows] :
            /\ \A i, j \in 1..n : i # j => s[i] # s[j]
            /\ \A i, j \in 1..n : i < j => s[i].created_at >= s[j].created_at }

\* LIMIT limit OFFSET offset of an ordered result
Page(s, limit, offset) == SubSeq(s, offset + 1, Min(Len(s), offset + limit))

\* the rows of "WHERE user_id = %s"
RowsOf(saved_results, user_id) == {r \in saved_results : r.user_id = user_id}

\* the response to a fetched page s and a fetched COUNT(*)
SavedResultsResponse(s, total) ==
    [ Outcome(200, <<"Retrieved saved results">>,
              [k \in 1..Len(s) |-> RowResult(s[k])], <<>>, {})
      EXCEPT !.total = total ]

\* mutant: COUNT(*) is taken of the fetched page
get_saved_results_PageCount(saved_results, current_user, limit, offset) ==
    { SavedResultsResponse(Page(s, limit, offset), Len(Page(s, limit, offset)))
      : s \in OrderedByCreatedDesc(RowsOf(saved_results, current_user.user_id)) }

\* the set of responses the two SELECTs can produce
get_saved_results(saved_results, current_user, limit, offset) ==
    { SavedResultsResponse(Page(s, limit, offset),
                           Cardinality(RowsOf(saved_results, current_user.user_id)))
      : s \in OrderedByCreatedDesc(RowsOf(saved_results, current_user.user_id)) }

\* ---------------------------------------------------- delete_saved_result
\* mutant: the DELETE matches on result_id alone
DeleteMatchIdOnly(saved_results, result_id, user_id) ==
    {r \in saved_results : r.result_id = result_id}

\* the rows "DELETE ... WHERE result_id = %s AND user_id = %s" removes
DeleteMatch(saved_results, result_id, user_id) ==
    {r \in saved_results : r.result_id = result_id /\ r.user_id = user_id}

\* the response; the DELETE is committed before rowcount is looked at
delete_saved_result(saved_results, current_user, result_id) ==
    IF Cardinality(DeleteMatch(saved_results, result_id, current_user.user_id)) = 0
    THEN Outcome(404, <<"Result not found">>, <<>>, <<>>, {})
    ELSE Outcome(200, <<"Result deleted successfully">>, <<>>, <<>>, {})

\* ---------------------------------------------------------------- register
\* "SELECT user_id FROM users WHERE username = %s OR email = %s" finds a row
Taken(users, username, email) ==
    \E u \in users : u.username = username \/ u.email = email

\* The users table's UNIQUE keys on username and on email: the INSERT of a
\* row that repeats either raises mysql.connector.IntegrityError.
UniqueKeyViolation(users, username, email) ==
    \E u \in users : u.username = username \/ u.email = email

\* the row of "INSERT INTO users (username, email, ...)": user_id is the
\* AUTO_INCREMENT value, is_active the column default (password_hash and
\* the names play no part in what follows and are left out)
NewUser(user_id, username, email) ==
    [user_id |-> user_id, username |-> username, email |-> email, is_active |-> TRUE]

\* TokenResponse(access_token=..., token_type="bearer", user=...)
TokenResponse(user, now) ==
    [access_token |-> create_access_token(
                          [user_id |-> user.user_id, username |-> user.username], now),
     token_type |-> "bearer", user |-> user]

\* ---------------------------------------------------------- db_pool
\* DB_CONFIG["pool_size"]
pool_size == 5

\* get_db_connection(): db_pool.get_connection() hands out a connection while
\* fewer than pool_size are out (the value is the number out afterwards);
\* an exhausted pool raises, which is turned into the HTTPException
get_db_connection(out) ==
    IF out < pool_size
    THEN Return(out + 1)
    ELSE HTTPException(500, <<"Database connection failed">>)

\* the rows of "SELECT user_id FROM users WHERE username = %s OR email = %s"
Matching(users, username, email) ==
    {u \in users : u.username = username \/ u.email = email}

\* the rows of "SELECT * FROM users WHERE username = %s AND is_active = TRUE"
ActiveByName(users, username) ==
    {u \in users : u.username = username /\ u.is_active}

\* One cursor.fetchone() on an unbuffered cursor reads the first row and
\* the packet after it: a result of two rows or more is left unread.
UnreadResult(found) == found > 1

\* "finally: cursor.close(); conn.close()" of a function that has executed
\* a SELECT of `found` rows and fetched one: cursor.close() raises
\* InternalError("Unread result found") on an unread result, and then
\* conn.close() is never reached.  The value is the number of connections
\* out of the pool afterwards.
CloseCursorAndConn(out, found) ==
    IF UnreadResult(found) THEN out ELSE out - 1

\* ======================================================================
\*                         state and transitions
\* ======================================================================
VARIABLES
    cl_title, cl_paragraph, cl_result,  \* evaluate_title_status: arguments, result
    users,            \* the users table
    next_user_id,     \* its AUTO_INCREMENT counter
    saved_results,    \* the saved_results table
    next_result_id,   \* its AUTO_INCREMENT counter
    now,              \* the clock (utcnow(), CURRENT_TIMESTAMP)
    reg,              \* register requests between their SELECT and their INSERT
    pending,          \* the request whose Depends(get_current_user) has returned
                      \* and whose handler body has not run yet
    last,             \* the last request answered and its response
    checked_out,      \* per worker process: connections out of its db_pool
    held              \* per worker process: connections the request it is
                      \* serving holds

vars == <<cl_title, cl_paragraph, cl_result, users, next_user_id, saved_results,
          next_result_id, now, reg, pending, last, checked_out, held>>

pool_vars == <<checked_out, held>>

cl_vars == <<cl_title, cl_paragraph, cl_result>>
user_vars == <<users, next_user_id, reg>>
result_vars == <<saved_results, next_result_id>>

\* ---------------------------------------------------------- input domains
\* request bodies the handlers are driven with
APIParagraphs == { <<>>, <<" ">>, <<"a">> }
LengthBounds == { <<15, 5>>, <<5, 20>> }      \* <<max_length, min_length>>
ParagraphLists == UNION { [1..n -> APIParagraphs \ {<<>>}] : n \in 0..MaxBatch }
Usernames == {"u1", "u2"}
Emails == {"e1", "e2"}
Clients == {"c1", "c2"}
ProtectedRoutes ==
    {"me", "generate-title", "generate-titles", "saved-results", "delete"}

\* bearer tokens presented at time t: well-formed ones for every user id
\* (MaxUsers + 1 is never a user), one that expires exactly now, one whose
\* signature does not verify, one without the user_id claim
TokenInputs(t) ==
    { Token(TRUE, [user_id |-> u, exp |-> t + 1]) : u \in 1..(MaxUsers + 1) } \cup
    { Token(TRUE, [user_id |-> 1, exp |-> t]),
      Token(FALSE, [user_id |-> 1, exp |-> t + 1]),
      Token(TRUE, [exp |-> t + 1]) }

\* the summarizer is not consulted for a blank paragraph
NoCall == [ok |-> TRUE, text |-> <<>>]
OutcomesFor(paragraph) ==
    IF Len(Strip(paragraph)) = 0 THEN {NoCall} ELSE SummarizerOutcomes

\* what is remembered of an answered request: the route, the bearer token
\* (of a request the dependency rejected) or the user it resolved to, the
\* arguments, what the summarizer did (env), and the response
Response(route, token, user_id, req, env, o) ==
    [route |-> route, token |-> token, user_id |-> user_id, req |-> req, env |-> env,
     status |-> o.status, detail |-> o.detail, data |-> o.data, total |-> o.total,
     calls |-> o.calls]

NoToken == Token(FALSE, <<>>)

\* pydantic's answer to a body that fails Field(..., min_length=1)
Unprocessable == Outcome(422, <<"validation error">>, <<>>, <<>>, {})

NoResponse ==
    [route |-> "none", token |-> NoToken, user_id |-> 0, req |-> None, env |-> None,
     status |-> 0, detail |-> <<>>, data |-> <<>>, total |-> 0, calls |-> <<>>]

NoPending == [route |-> "none", token |-> NoToken, user_id |-> 0]

\* the accounts present when the protected routes are exercised: two
\* registered users and one whose is_active flag was cleared in the database
SeedUsers ==
    { [user_id |-> 1, username |-> "u1", email |-> "e1", is_active |-> TRUE],
      [user_id |-> 2, username |-> "u2", email |-> "e2", is_active |-> TRUE],
      [user_id |-> 3, username |-> "u3", email |-> "e3", is_active |-> FALSE] }

\* ------------------------------------------------------------------- Init
InitTables ==
    /\ saved_results = {}
    /\ next_result_id = 1
    /\ now = 0
    /\ reg = [c \in Clients |-> [pc |-> "idle", username |-> "", email |-> ""]]
    /\ pending = NoPending
    /\ last = NoResponse
    /\ checked_out = [c \in Clients |-> 0]
    /\ held = [c \in Clients |-> 0]

InitNoClassify ==
    /\ cl_title = <<>>
    /\ cl_paragraph = <<>>
    /\ cl_result = <<>>

Init ==
    /\ InitNoClassify
    /\ InitTables
    /\ users = SeedUsers
    /\ next_user_id = MaxUsers + 1

InitRegister ==
    /\ InitNoClassify
    /\ InitTables
    /\ users = {}
    /\ next_user_id = 1

InitClassify ==
    /\ cl_title \in Titles
    /\ cl_paragraph \in ClassifyParagraphs
    /\ cl_result = <<>>
    /\ InitTables
    /\ users = {}
    /\ next_user_id = 1

\* ---------------------------------------------------------------- actions
Evaluate ==
    /\ cl_result = <<>>
    /\ cl_result' = evaluate_title_status(cl_title, cl_paragraph)
    /\ UNCHANGED <<cl_title, cl_paragraph, user_vars, result_vars, now, pending, last,
                   pool_vars>>

Tick ==
    /\ now < MaxTime
    /\ now' = now + 1
    /\ UNCHANGED <<cl_vars, user_vars, result_vars, pending, last, pool_vars>>

\* Depends(get_current_user) of a request to a protected route: a raised
\* HTTPException answers the request and the handler body never runs;
\* otherwise the handler body is due with current_user
AuthenticateFor(routes) ==
    /\ pending.route = "none"
    /\ \E route \in routes, token \in TokenInputs(now) :
       \E auth \in get_current_user(token, now, users) :
          IF ~auth.ok
          THEN /\ last' = Response(route, token, 0, None, None,
                                   Outcome(auth.status, auth.detail, <<>>, <<>>, {}))
               /\ UNCHANGED pending
          ELSE /\ pending' = [route |-> route, token |-> token,
                               user_id |-> auth.value.user_id]
               /\ last' = NoResponse
    /\ UNCHANGED <<cl_vars, user_vars, result_vars, now, pool_vars>>

Authenticate == AuthenticateFor(ProtectedRoutes)

\* the rows a handler committed reach the table, its response the client
Commit(req, env, o) ==
    /\ \A r \in o.inserted : r.result_id <= MaxResults
    /\ saved_results' = saved_results \cup o.inserted
    /\ next_result_id' = next_result_id + Cardinality(o.inserted)
    /\ last' = Response(pending.route, NoToken, pending.user_id, req, env, o)
    /\ pending' = NoPending
    /\ UNCHANGED <<cl_vars, user_vars, now, pool_vars>>

current_user == CHOOSE u \in users : u.user_id = pending.user_id

\* GET /me
GetMe ==
    /\ pending.route = "me"
    /\ Commit(None, None, Outcome(200, <<>>, << current_user >>, <<>>, {}))

\* POST /generate-title
GenerateSingleTitle ==
    /\ pending.route = "generate-title"
    /\ \E paragraph \in APIParagraphs, lens \in LengthBounds, save_result \in BOOLEAN :
       \E outcome \in OutcomesFor(paragraph) :
          LET request == [paragraph |-> paragraph, max_length |-> lens[1],
                          min_length |-> lens[2], save_result |-> save_result]
          IN  Commit(request, outcome,
                     IF Len(paragraph) < 1 THEN Unprocessable
                     ELSE generate_single_title(request, current_user, now,
                                                next_result_id, outcome))

\* POST /generate-titles
GenerateMultipleTitles ==
    /\ pending.route = "generate-titles"
    /\ \E paragraphs \in ParagraphLists, lens \in LengthBounds, save_results \in BOOLEAN :
       \E outcomes \in [1..Len(paragraphs) -> SummarizerOutcomes \cup {NoCall}] :
          LET request == [paragraphs |-> paragraphs, max_length |-> lens[1],
                          min_length |-> lens[2], save_results |-> save_results]
          IN  /\ \A i \in 1..Len(paragraphs) : outcomes[i] \in OutcomesFor(paragraphs[i])
              /\ Commit(request, outcomes,
                        IF Len(paragraphs) < 1 THEN Unprocessable
                        ELSE generate_multiple_titles(request, current_user, now,
                                                      next_result_id, outcomes))

\* GET /saved-results
GetSavedResults ==
    /\ pending.route = "saved-results"
    /\ \E limit \in 0..MaxLimit, offset \in 0..MaxLimit :
       \E o \in get_saved_results(saved_results, current_user, limit, offset) :
          Commit([limit |-> limit, offset |-> offset], None, o)

\* DELETE /saved-results/{result_id}
DeleteSavedResult ==
    /\ pending.route = "delete"
    /\ \E result_id \in 1..(MaxResults + 1) :
          /\ saved_results' = saved_results \
                                DeleteMatch(saved_results, result_id, pending.user_id)
          /\ last' = Response("delete", NoToken, pending.user_id,
                              [result_id |-> result_id], None,
                              delete_saved_result(saved_results, current_user, result_id))
    /\ pending' = NoPending
    /\ UNCHANGED <<cl_vars, user_vars, next_result_id, now, pool_vars>>

\* POST /register up to its first SELECT: the connection is taken from the
\* pool of the worker process c that serves the request; a taken username or
\* email answers with the HTTPException of line 357, through the finally
\* clause.  A request that finds nothing keeps its connection for the INSERT.
RegisterSelect ==
    /\ \E c \in Clients, username \in Usernames, email \in Emails :
          /\ reg[c].pc = "idle"
          /\ LET conn == get_db_connection(checked_out[c])
                 req == [username |-> username, email |-> email]
                 found == Cardinality(Matching(users, username, email))
             IN  IF ~conn.ok
                 THEN /\ last' = Response("register", NoToken, 0, req, [taken |-> FALSE],
                                     Outcome(conn.status, conn.detail, <<>>, <<>>, {}))
                      /\ UNCHANGED <<reg, pool_vars>>
                 ELSE IF Taken(users, username, email)
                 THEN /\ last' = Response("register", NoToken, 0, req, [taken |-> TRUE],
                                     IF UnreadResult(found)
                                     THEN Outcome(500, <<"Internal Server Error">>,
                                                  <<>>, <<>>, {})
                                     ELSE Outcome(400,
                                                  <<"Username or email already exists">>,
                                                  <<>>, <<>>, {}))
                      /\ checked_out' = [checked_out EXCEPT
                                            ![c] = CloseCursorAndConn(conn.value, found)]
                      /\ UNCHANGED <<reg, held>>
                 ELSE /\ reg' = [reg EXCEPT ![c] = [pc |-> "insert", username |-> username,
                                                      email |-> email]]
                      /\ last' = NoResponse
                      /\ checked_out' = [checked_out EXCEPT ![c] = conn.value]
                      /\ held' = [held EXCEPT ![c] = @ + 1]
    /\ UNCHANGED <<cl_vars, users, next_user_id, result_vars, now, pending>>

\* POST /register, the rest: INSERT, commit, fetch the row, issue the token;
\* a mysql.connector.Error rolls back and answers 500; either way the finally
\* clause closes the cursor (one row at most was selected) and the
\* connection.  Register requests served by different worker processes
\* interleave between the two steps.
RegisterInsert ==
    /\ \E c \in Clients :
          /\ reg[c].pc = "insert"
          /\ LET username == reg[c].username
                 email == reg[c].email
                 req == [username |-> username, email |-> email]
             IN  IF UniqueKeyViolation(users, username, email)
                 THEN /\ last' = Response("register", NoToken, 0, req, [taken |-> TRUE],
                                     Outcome(500, <<"Registration failed">>,
                                             <<>>, <<>>, {}))
                      /\ UNCHANGED <<users, next_user_id>>
                 ELSE /\ next_user_id <= MaxUsers
                      /\ users' = users \cup {NewUser(next_user_id, username, email)}
                      /\ next_user_id' = next_user_id + 1
                      /\ last' = Response("register", NoToken, next_user_id, req,
                                     [taken |-> FALSE],
                                     Outcome(200, <<>>,
                                         << TokenResponse(NewUser(next_user_id, username,
                                                                  email), now) >>,
                                         <<>>, {}))
          /\ reg' = [reg EXCEPT ![c] = [pc |-> "idle", username |-> "", email |-> ""]]
          /\ checked_out' = [checked_out EXCEPT ![c] = CloseCursorAndConn(@, 1)]
          /\ held' = [held EXCEPT ![c] = @ - 1]
    /\ UNCHANGED <<cl_vars, result_vars, now, pending>>

\* POST /login in worker process c (last_login is not a column of the model;
\* what verify_password makes of the password is an input)
Login ==
    /\ \E c \in Clients, username \in Usernames, password_ok \in BOOLEAN :
          /\ reg[c].pc = "idle"
          /\ LET conn == get_db_connection(checked_out[c])
                 req == [username |-> username]
                 env == [password_ok |-> password_ok]
                 rows == ActiveByName(users, username)
                 user == CHOOSE u \in rows : TRUE
             IN  IF ~conn.ok
                 THEN /\ last' = Response("login", NoToken, 0, req, env,
                                     Outcome(conn.status, conn.detail, <<>>, <<>>, {}))
                      /\ UNCHANGED checked_out
                 ELSE /\ last' = Response("login", NoToken, 0, req, env,
                                     IF UnreadResult(Cardinality(rows))
                                     THEN Outcome(500, <<"Internal Server Error">>,
                                                  <<>>, <<>>, {})
                                     ELSE IF rows = {} \/ ~password_ok
                                     THEN Outcome(401, <<"Invalid username or password">>,
                                                  <<>>, <<>>, {})
                                     ELSE Outcome(200, <<>>,
                                                  << TokenResponse(user, now) >>,
                                                  <<>>, {}))
                      /\ checked_out' = [checked_out EXCEPT
                                 ![c] = CloseCursorAndConn(conn.value, Cardinality(rows))]
    /\ UNCHANGED <<cl_vars, user_vars, result_vars, now, pending, held>>

Next ==
    \/ Tick
    \/ Authenticate
    \/ GetMe
    \/ GenerateSingleTitle
    \/ GenerateMultipleTitles
    \/ GetSavedResults
    \/ DeleteSavedResult

Spec == Init /\ [][Next]_vars

\* the result store alone: rows are saved through /generate-title, listed
\* and deleted
AuthenticateStore == AuthenticateFor({"generate-title", "saved-results", "delete"})

NextStore ==
    \/ Tick
    \/ AuthenticateStore
    \/ GenerateSingleTitle
    \/ GetSavedResults
    \/ DeleteSavedResult

SpecStore == Init /\ [][NextStore]_vars

\* title generation alone: the two generating routes
AuthenticateGenerate == AuthenticateFor({"generate-title", "generate-titles"})

NextGenerate ==
    \/ Tick
    \/ AuthenticateGenerate
    \/ GenerateSingleTitle
    \/ GenerateMultipleTitles

SpecGenerate == Init /\ [][NextGenerate]_vars

NextRegister ==
    \/ Tick
    \/ RegisterSelect
    \/ RegisterInsert

SpecRegister == InitRegister /\ [][NextRegister]_vars

\* the connection pool: the two routes that take their connection in the
\* handler itself
NextPool ==
    \/ RegisterSelect
    \/ RegisterInsert
    \/ Login

SpecPool == InitRegister /\ [][NextPool]_vars

NextClassify == Evaluate

SpecClassify == InitClassify /\ [][NextClassify]_vars


\* ======================================================================
\*                               properties
\* ======================================================================
\* the title ends with a run of two or more '.' characters
EndsWithEllipsis(title) ==
    /\ Len(title) >= 2
    /\ title[Len(title)] = "."
    /\ title[Len(title) - 1] = "."

Evaluated == cl_result # <<>>

\* the last request answered went to route and its handler body ran
Answered(route) == last.route = route /\ last.user_id # 0

\* C1 (as claimed): every title that ends with an ellipsis is classified
\* ("truncated", "medium"), whatever its word count and the paragraph's.
C1_EllipsisAlwaysTruncated ==
    (Evaluated /\ EndsWithEllipsis(cl_title)) => cl_result = <<"truncated", "medium">>

\* C2: a title of fewer than 3 words that does not end with an ellipsis is
\* classified exactly ("short", "medium"), whatever the paragraph's length.
C2_ShortTitleIsFinal ==
    (Evaluated /\ SplitLen(cl_title) < 3 /\ ~EndsWithEllipsis(cl_title))
        => cl_result = <<"short", "medium">>

\* a 2-word title without ellipsis on a paragraph of 50 or more words
C2_Witness ==
    /\ Evaluated
    /\ SplitLen(cl_title) = 2
    /\ ~EndsWithEllipsis(cl_title)
    /\ SplitLen(cl_paragraph) >= 50
    /\ cl_result = <<"short", "medium">>

\* C3: for a title of at least 3 words that does not end with an ellipsis
\* the status is "optimal" for 3..8 words and "verbose" for 9 or more, and
\* the confidence is "low" for a paragraph of at most 9 words, "medium" for
\* 10..49 and "high" for 50 or more.
C3_StatusAndConfidenceTable ==
    (Evaluated /\ SplitLen(cl_title) >= 3 /\ ~EndsWithEllipsis(cl_title)) =>
        /\ SplitLen(cl_title) \in 3..8 => cl_result[1] = "optimal"
        /\ SplitLen(cl_title) >= 9 => cl_result[1] = "verbose"
        /\ SplitLen(cl_paragraph) <= 9 => cl_result[2] = "low"
        /\ SplitLen(cl_paragraph) \in 10..49 => cl_result[2] = "medium"
        /\ SplitLen(cl_paragraph) >= 50 => cl_result[2] = "high"

\* the boundary case of 9 title words and 50 paragraph words
C3_Witness ==
    /\ Evaluated
    /\ SplitLen(cl_title) = 9
    /\ ~EndsWithEllipsis(cl_title)
    /\ SplitLen(cl_paragraph) = 50
    /\ cl_result = <<"verbose", "high">>

\* the token is expired, malformed, without user_id claim, or names a user
\* that is absent or inactive
BadToken(token, t, us) ==
    \/ ~token.sig_ok
    \/ "exp" \in DOMAIN token.payload /\ token.payload["exp"] <= t
    \/ "user_id" \notin DOMAIN token.payload
    \/ ~\E u \in us : u.user_id = token.payload["user_id"] /\ u.is_active

\* C4 (as claimed): a request to a protected route with a bad token is
\* answered 401 by the dependency, so that the handler body never runs: the
\* summarizer is not invoked and saved_results does not change; absent and
\* inactive users get the same error.
C4_BadTokenIsUnauthorized ==
    [][ (pending.route = "none" /\ (pending' # pending \/ last' # last)) =>
        LET accepted == pending'.route # "none"
            route == IF accepted THEN pending'.route ELSE last'.route
            token == IF accepted THEN pending'.token ELSE last'.token
        IN  (route \in ProtectedRoutes /\ BadToken(token, now, users)) =>
               /\ ~accepted
               /\ last'.status = 401
               /\ last'.calls = <<>>
               /\ UNCHANGED <<saved_results, next_result_id>> ]_vars

\* the step in which the handler body of a pending request to route runs
HandlerStep(route) == pending.route = route /\ pending'.route = "none"

\* C5: DELETE /saved-results/{result_id} removes exactly the row whose id and
\* owner both match; when none matches the answer is 404, the table is
\* unchanged and a row of that id owned by someone else is still listed for
\* its owner.
C5_DeleteOnlyOwnRow ==
    [][ HandlerStep("delete") =>
        LET rid == last'.req.result_id
            uid == last'.user_id
            own == {r \in saved_results : r.result_id = rid /\ r.user_id = uid}
            others == {r \in saved_results : r.result_id = rid /\ r.user_id # uid}
        IN  /\ own = {} =>
                /\ last'.status = 404
                /\ saved_results' = saved_results
                /\ \A r \in others :
                     \A o \in get_saved_results(saved_results',
                                  [user_id |-> r.user_id], Cardinality(saved_results'), 0) :
                        \E k \in 1..Len(o.data) : o.data[k].result_id = rid
            /\ own # {} =>
                /\ last'.status = 200
                /\ Cardinality(own) = 1
                /\ saved_results' = saved_results \ own ]_vars

\* a delete answered 404 while the row of that id, owned by another user, is
\* still stored
C5_Witness ==
    /\ Answered("delete")
    /\ last.status = 404
    /\ \E r \in saved_results :
          r.result_id = last.req.result_id /\ r.user_id # last.user_id

\* no two user rows share a username or an email
UniqueUsers ==
    \A u, v \in users :
        (u.username = v.username \/ u.email = v.email) => u = v

\* C6 (as claimed): usernames and emails stay unique, and a register request
\* for a taken username or email is answered with the conflict class (409),
\* gets no token and leaves the users table as it was.
C6_TakenIsConflict ==
    /\ UniqueUsers
    /\ (last.route = "register" /\ last.env.taken) =>
          /\ last.status = 409
          /\ last.data = <<>>

RECURSIVE NonBlankUpTo(_, _)
\* the non-blank paragraphs among the first k, in input order
NonBlankUpTo(paragraphs, k) ==
    IF k = 0 THEN <<>>
    ELSE IF Len(Strip(paragraphs[k])) = 0
         THEN NonBlankUpTo(paragraphs, k - 1)
         ELSE Append(NonBlankUpTo(paragraphs, k - 1), paragraphs[k])

\* C7: /generate-titles hands the non-blank paragraphs to the summarizer in
\* input order and skips blank ones; when the summarizer fails for item k the
\* answer is that item's error with no titles, no later item is processed and
\* the rows saved for the items before k stay stored.
C7_BatchSequentialAbort ==
    [][ (HandlerStep("generate-titles") /\ Len(last'.req.paragraphs) > 0) =>
        LET req == last'.req
            outcomes == last'.env
            n == Len(req.paragraphs)
            failing == {i \in 1..n : ~outcomes[i].ok}
            k == CHOOSE i \in failing : \A j \in failing : i <= j
            upto == IF failing = {} THEN n ELSE k
            processed == NonBlankUpTo(req.paragraphs, upto)
            completed == IF failing = {} THEN processed
                         ELSE NonBlankUpTo(req.paragraphs, k - 1)
            added == saved_results' \ saved_results
        IN  /\ Len(last'.calls) = Len(processed)
            /\ \A j \in 1..Len(processed) : last'.calls[j].paragraph = processed[j]
            /\ saved_results \subseteq saved_results'
            /\ Cardinality(added) = IF req.save_results THEN Len(completed) ELSE 0
            /\ \A r \in added : r.user_id = last'.user_id
            /\ failing # {} =>
                  /\ last'.status = 400
                  /\ last'.detail = <<"Failed to generate title: ", outcomes[k].text>>
                  /\ last'.data = <<>>
            /\ failing = {} =>
                  /\ last'.status = 200
                  /\ Len(last'.data) = Len(processed)
                  /\ \A j \in 1..Len(processed) :
                        last'.data[j].paragraph = processed[j] ]_vars

\* a batch whose second item failed after its first item was saved
C7_Witness ==
    /\ Answered("generate-titles")
    /\ Len(last.req.paragraphs) = 2
    /\ last.req.save_results
    /\ last.env[1].ok /\ last.env[1] # NoCall
    /\ ~last.env[2].ok
    /\ last.status = 400
    /\ last.data = <<>>
    /\ \E r \in saved_results : r.user_id = last.user_id /\ r.created_at = now

\* C8 (as claimed): when the summarizer raises, the answer is of the server
\* error class and its message does not contain the summarizer's error text.
C8_GenericServerError ==
    (Answered("generate-title") /\ ~last.env.ok) =>
        /\ last.status \in 500..599
        /\ \A i \in 1..Len(last.detail) : last.detail[i] # last.env.text

\* C9: an empty or whitespace-only paragraph makes generate_title raise the
\* empty-input ValueError without calling the summarizer, for all length
\* bounds; /generate-title answers it with a client error, calls no
\* summarizer and saves nothing.
C9_BlankParagraphRejected ==
    [][ (HandlerStep("generate-title") /\ Len(Strip(last'.req.paragraph)) = 0) =>
        /\ \A o \in SummarizerOutcomes \cup {NoCall} :
              LET g == generate_title(last'.req.paragraph, last'.req.max_length,
                                      last'.req.min_length, o)
              IN  /\ ~g.ok
                  /\ g.message = <<"Paragraph cannot be empty">>
                  /\ g.calls = <<>>
        /\ last'.status \in 400..499
        /\ last'.req.paragraph # <<>> =>
              /\ last'.status = 400
              /\ last'.detail = <<"Paragraph cannot be empty">>
        /\ last'.calls = <<>>
        /\ last'.data = <<>>
        /\ UNCHANGED <<saved_results, next_result_id>> ]_vars

\* a whitespace-only paragraph answered 400 with save_result set
C9_Witness ==
    /\ Answered("generate-title")
    /\ last.req.paragraph = <<" ">>
    /\ last.req.save_result
    /\ last.status = 400
    /\ last.calls = <<>>

\* C10: GET /saved-results returns only rows of the user, at most limit of
\* them, in descending created_at order, preceded in that order by offset
\* rows (or by all the user's rows when there are fewer); total_results is
\* the number of all the user's rows; no stored row changes.
C10_PageAndTotal ==
    [][ HandlerStep("saved-results") =>
        LET limit == last'.req.limit
            offset == last'.req.offset
            data == last'.data
            own == {r \in saved_results : r.user_id = last'.user_id}
            shown == {r \in own : \E k \in 1..Len(data) : RowResult(r) = data[k]}
            left == Cardinality(own) - offset
        IN  /\ last'.status = 200
            /\ last'.total = Cardinality(own)
            /\ \A k \in 1..Len(data) : \E r \in own : RowResult(r) = data[k]
            /\ \A i, j \in 1..Len(data) : i # j => data[i].result_id # data[j].result_id
            /\ Len(data) <= limit
            /\ Len(data) = IF left <= 0 THEN 0 ELSE Min(limit, left)
            /\ \A i, j \in 1..Len(data) :
                  i < j => data[i].created_at >= data[j].created_at
            /\ \E before \in SUBSET (own \ shown) :
                  /\ Cardinality(before) = Min(offset, Cardinality(own))
                  /\ \A b \in before, d \in shown : b.created_at >= d.created_at
                  /\ \A a \in own \ (shown \cup before), d \in shown :
                        a.created_at <= d.created_at
            /\ UNCHANGED <<saved_results, next_result_id>> ]_vars

\* two saved rows of the user, limit 1: one row returned, total_results 2
C10_Witness ==
    /\ Answered("saved-results")
    /\ last.req.limit = 1
    /\ last.req.offset = 0
    /\ Len(last.data) = 1
    /\ last.total = 2
    /\ \E r \in saved_results : r.user_id # last.user_id

\* no request is between its checkout and its finally clause
AllRequestsFinished ==
    /\ \A c \in Clients : reg[c].pc = "idle"
    /\ pending.route = "none"

\* C11 (as claimed): every connection a request checks out is returned on
\* every exit path, so that once all requests have finished no connection
\* is out of any pool; a request never holds more than one connection, so
\* that a pool is never over its size by more than the one connection of
\* the request in flight.
C11_ConnectionsReturned ==
    /\ AllRequestsFinished => \A c \in Clients : checked_out[c] = 0
    /\ \A c \in Clients : held[c] <= 1
    /\ \A c \in Clients : checked_out[c] <= pool_size + held[c]

====
